---- MODULE Spec2Model ----
(***************************************************************************)
(* Model of the email-action endpoint, GET /:action/:token, of             *)
(* src/server/routes/emailActions_Manager.ts, run by concurrent request    *)
(* handlers against a transactional store (mysql2 pool connections).       *)
(*                                                                         *)
(* Every await of the handler is one atomic step.  The store keeps the     *)
(* committed rows; a transaction's UPDATEs are held in its write set (the  *)
(* X row locks of InnoDB) and reach the committed rows at COMMIT.  The     *)
(* handler's SELECTs are plain, non-locking reads.                         *)
(***************************************************************************)
EXTENDS Integers, FiniteSets, Sequences, Bags, TLC

\* ---------------------------------------------------------------- bounds
NumHandlers == 2      \* concurrent requests
MaxTime == 1          \* the clock NOW() runs over 0..MaxTime
MaxFailures == 1      \* store operations / notifications that fail in one run
MaxInflight == 3      \* asynchronous operations of a component not yet settled
NumCallers == 3       \* concurrent reserve calls
MaxDay == 2           \* calendar days 1..MaxDay
MaxCancelCalls == 2   \* cancelTimeslots calls not yet settled

\* ------------------------------------------------------------- vocabulary
Handlers == 1..NumHandlers
UrlActions == {"approve", "reject", "delete"}     \* "delete": an unrecognised :action
TokenRows == {"T1", "T2"}                         \* rows of email_action_tokens
UrlTokens == TokenRows \cup {"TX"}                \* "TX": a value with no row
\* req.params of the requests: every recognised action with every token, and one
\* request with an unrecognised action
Requests == {p \in UrlActions \X UrlTokens : p[1] \in {"approve", "reject"} \/ p[2] = "T1"}
BookingIds == {"B1"}
InfraIds == {"I1"}
Statuses == {"pending", "approved", "rejected", "cancelled"}
Isolations == {"REPEATABLE READ", "READ COMMITTED"}
NoRow == "none"

VARIABLES
    bookings,        \* committed rows of bookings: id -> status (DOMAIN = the rows that exist)
    tokens,          \* committed rows of email_action_tokens: token -> [booking_id, used, expires]
    infrastructures, \* ids of the rows of infrastructures
    timeslots,       \* committed state of each booking's timeslot: "reserved" | "available"
    now,             \* NOW()
    isolation,       \* transaction isolation of the pool's connections
    failures,        \* failures injected so far
    pc,              \* per handler: the await it is about to execute
    action,          \* per handler: req.params.action
    token,           \* per handler: req.params.token
    tokenRecord,     \* per handler: tokens[0] (NoRow when not read / none)
    booking,         \* per handler: bookings[0] as read, <<>> when not read, else <<status>>
    snapshot,        \* per handler: read view of bookings taken by the first SELECT
    wBooking,        \* per handler: uncommitted UPDATE of the booking row (NoRow or status)
    wToken,          \* per handler: uncommitted UPDATE ... SET used = 1
    wTimeslot,       \* per handler: uncommitted release of the timeslot (the procedure's)
    txn,             \* per handler: "none" | "open" | "committed" | "rolledback"
    conn,            \* per handler: "none" | "held" | "released"
    resp,            \* per handler: sequence of responses written to res
    sent,            \* per handler: sequence of sendBookingStatusUpdate calls
    failed,          \* per handler: what threw inside the try block: "none" | "store" | "send"
    hist,            \* per handler: observations used to state properties
    bookTimeslot,    \* the state of the mounted BookTimeslot component
    inflight,        \* bag of the component's asynchronous operations not yet settled
    reservations,    \* Availability Engine: timeslot -> [status, requester, created]
    reserveCalls,    \* per caller: its reserve call
    today,           \* the calendar day
    timeslotList,    \* the state of BookingManagementTabsTimeslots and of its props
    cancelCalls      \* bag of the cancelTimeslots calls not yet settled

vars == <<bookings, tokens, infrastructures, timeslots, now, isolation, failures, pc,
          action, token, tokenRecord, booking, snapshot, wBooking, wToken, wTimeslot,
          txn, conn, resp, sent, failed, hist, bookTimeslot, inflight,
          reservations, reserveCalls, today, timeslotList, cancelCalls>>

store == <<bookings, tokens, infrastructures, timeslots>>
locals == <<action, token, tokenRecord, booking, snapshot>>
\* what no request handler changes: the connection setting and the client's components
outside == <<isolation, bookTimeslot, inflight, reservations, reserveCalls, today,
             timeslotList, cancelCalls>>
\* the state of the endpoint and its store
server == <<bookings, tokens, infrastructures, timeslots, now, isolation, failures, pc,
            action, token, tokenRecord, booking, snapshot, wBooking, wToken, wTimeslot,
            txn, conn, resp, sent, failed, hist>>
book == <<bookTimeslot, inflight>>
reservation == <<reservations, reserveCalls, today>>
management == <<timeslotList, cancelCalls>>
\* what the BookTimeslot component never assigns
aroundBook == <<server, reservation, management>>

\* -------------------------------------------------------------- responses
InvalidAction == [status |-> 400, success |-> FALSE, message |-> "Invalid action"]
InvalidOrExpiredToken ==
    [status |-> 400, success |-> FALSE, message |-> "Invalid or expired email-action token"]
BookingNotFound == [status |-> 404, success |-> FALSE, message |-> "Booking not found"]
AlreadyProcessed(st) ==
    [status |-> 400, success |-> FALSE,
     message |-> "This booking has already been processed", currentStatus |-> st]
Success(a) ==
    [status |-> 200, success |-> TRUE,
     message |-> IF a = "approve" THEN "Booking approved successfully"
                                  ELSE "Booking rejected successfully",
     action |-> a]
ServerError == [status |-> 500, success |-> FALSE, message |-> "Error processing the action"]

\* ------------------------------------------------------------------ store
\* the query of line 27 without "AND used = 0"
SelectTokenIgnoringUsed(t, n) ==
    IF t \in DOMAIN tokens /\ tokens[t].expires > n THEN {t} ELSE {}

\* the query of line 27 without "AND expires > NOW()"
SelectTokenIgnoringExpiry(t, n) ==
    IF t \in DOMAIN tokens /\ ~tokens[t].used THEN {t} ELSE {}

\* SELECT * FROM email_action_tokens WHERE token = ? AND used = 0 AND expires > NOW(),
\* run at time n
SelectValidToken(t, n) ==
    IF t \in DOMAIN tokens /\ ~tokens[t].used /\ tokens[t].expires > n
    THEN {t} ELSE {}

\* The view a plain SELECT of this transaction reads the bookings table in.
ReadView(h) == IF isolation = "REPEATABLE READ" THEN snapshot[h] ELSE bookings

\* the transaction, other than h's, holding the X lock of booking row b
BookingLockedByOther(h, b) ==
    \E g \in Handlers \ {h} : txn[g] = "open" /\ wBooking[g] # NoRow
                              /\ tokens[tokenRecord[g]].booking_id = b
TokenLockedByOther(h, t) ==
    \E g \in Handlers \ {h} : txn[g] = "open" /\ wToken[g] /\ tokenRecord[g] = t

\* CALL AdminRejectOrCancelBooking(id, st): the status the procedure leaves
AdminRejectOrCancelBooking(st) == st

\* a reject branch that writes the status itself and never calls the procedure
ReleasesTimeslotNever(a) == FALSE

\* lines 82-87: the reject branch calls the procedure, whose transaction-scoped
\* effect includes the release of the booking's timeslot; line 79 releases nothing
ReleasesTimeslot(a) == a = "reject"

\* the status line 79 / line 85 writes
NewStatus(a) == IF a = "approve" THEN "approved" ELSE AdminRejectOrCancelBooking("rejected")

CanFail == failures < MaxFailures

EmptyHist ==
    [after |-> {},             \* the requests that had ended when this one arrived
     tokRead |-> FALSE,        \* line 26 has returned
     tokExists |-> FALSE,      \* the token row as it was when line 26 read it
     tokUsed |-> FALSE,
     tokExpired |-> FALSE,
     overwrote |-> NoRow,      \* committed status of the row when this UPDATE locked it
     sentInTxn |-> "none",     \* state of the transaction when the notification was sent
     rollbackThrew |-> FALSE,  \* connection.rollback() threw
     wrote |-> NoRow,          \* the booking status this request's COMMIT made durable
     usedCommitted |-> FALSE,  \* this request's COMMIT made used = 1 durable
     acquired |-> 0,           \* connections pool.getConnection() gave this request
     releases |-> 0]           \* calls of connection.release()

\* ------------------------------------------- BookTimeslot: vocabulary
Null == "null"               \* JavaScript null
Undefined == "undefined"     \* JavaScript undefined
ClientInfras == {"A", "B"}          \* the infrastructures the selector offers
Days == {"d1", "d2"}                \* calendar days, none in the past

\* what GET available-timeslots returns for an infrastructure: BookingEntry rows
AvailableTimeslots ==
    {[id |-> "s1", infrastructure_id |-> "A", booking_date |-> "d1"],
     [id |-> "s2", infrastructure_id |-> "A", booking_date |-> "d2"],
     [id |-> "s3", infrastructure_id |-> "B", booking_date |-> "d1"]}
TimeslotsOf(i) == {slot \in AvailableTimeslots : slot.infrastructure_id = i}

\* text is a sequence of characters
Blank == <<" ">>
TypedTexts == {<<>>, Blank, <<"a">>}

\* the filter questions of an infrastructure: FilterQuestionData rows
QuestionsOf(i) ==
    IF i = "A"
    THEN <<[id |-> "q1", question_type |-> "text", is_required |-> TRUE]>>
    ELSE <<[id |-> "q3", question_type |-> "number", is_required |-> TRUE],
           [id |-> "q4", question_type |-> "document", is_required |-> TRUE]>>

\* answers are tagged with their JavaScript type
Str(text) == [type |-> "string", value |-> text]
NullAnswer == [type |-> "object", value |-> <<"n", "u", "l", "l">>]
FileAnswer == [type |-> "File", value |-> <<"f">>]

\* lines 76-80 and 429-433: the empty answer of every question
InitialAnswers(qs) ==
    [id \in {qs[k].id : k \in 1..Len(qs)} |->
        LET q == CHOOSE q \in {qs[k] : k \in 1..Len(qs)} : q.id = id
        IN  IF q.question_type = "document" THEN NullAnswer ELSE Str(<<>>)]

\* messages shown in the alert (lines 203-328)
NoMessage == Null
Error(text) == "error"
Succeeded(text) == "success"

\* lines 46-66 and the effects of the first render (lines 86-90, 105, 118)
BookTimeslotMount(guest) ==
    [isLoading |-> TRUE,
     isProcessingGuestBooking |-> FALSE,
     allTimeslots |-> {},
     selectedDateTimeslots |-> {},
     isLoadingTimeslots |-> FALSE,
     selectedDate |-> Undefined,
     selectedInfrastructure |-> Null,
     selectedTimeslotId |-> Undefined,
     purpose |-> <<>>,
     message |-> NoMessage,
     questions |-> <<>>,
     answers |-> <<>>,
     isFormValid |-> FALSE,
     isGuestMode |-> guest,
     guestEmail |-> <<>>,
     showGuestEmailForm |-> FALSE,
     guestName |-> <<>>]

\* ------------------------------------------- Availability Engine: vocabulary
Callers == 1..NumCallers
ReserveSlots == {"r1", "r2"}
NoRequester == [kind |-> "none", id |-> ""]
\* requesterInfo: a registered user, or a guest with an email address
RequesterInfos ==
    {[kind |-> "user", id |-> "u1"],
     [kind |-> "guest", id |-> "a@x.y"],
     [kind |-> "guest", id |-> "b@x.y"]}
FreeSlot == [status |-> "available", requester |-> NoRequester, created |-> 0]
IdleCall ==
    [state |-> "idle", timeslot |-> NoRow, requester |-> NoRequester, result |-> NoRow,
     day |-> 0,                \* the day the call ran
     sawAvailable |-> FALSE,   \* the timeslot was available when the call ran
     heldPending |-> FALSE]    \* the guest held a pending booking made that day

\* ------------------------------- BookingManagementTabsTimeslots: vocabulary
ListIds == {"t1", "t2"}
RowStatuses == {"available", "booked"}
\* the days of the calendar of the day filter, and booking_date of each row
FilterDays == {"day1", "day2"}
BookingDate(id) == IF id = "t1" THEN "day1" ELSE "day2"
\* the choices of the status filter and of the time-period filter
StatusFilterChoices == {{}, {"available"}}
DateFilterOptions == {"today"}

\* lines 693-718: the component as first rendered with an infrastructure and items
TimeslotListMount(items) ==
    [selectedInfrastructure |-> TRUE,    \* the prop is defined
     items |-> items,                    \* the prop: id -> status
     timeslots |-> items,
     isLoading |-> FALSE,
     selectedTimeslots |-> {},           \* filterState.selectedTimeslots
     selectedTimeslotStatusFilters |-> {},
     selectedTimeslotDateFilters |-> {},
     timeslotDayFilter |-> "",
     t_timeslotDayFilter |-> Undefined,
     clearedDateFilters |-> {},          \* what handleDateFilterChange(date) last cleared
     reported |-> NoRow,                 \* the callback last called: onDelete / onError
     dataChangeRequested |-> FALSE]      \* onDataChange was called

\* no request has arrived
HandlersAtRest ==
    /\ now = 0
    /\ failures = 0
    /\ pc = [h \in Handlers |-> "idle"]
    /\ action = [h \in Handlers |-> "approve"]
    /\ token = [h \in Handlers |-> "TX"]
    /\ tokenRecord = [h \in Handlers |-> NoRow]
    /\ booking = [h \in Handlers |-> <<>>]
    /\ snapshot = [h \in Handlers |-> <<>>]
    /\ wBooking = [h \in Handlers |-> NoRow]
    /\ wToken = [h \in Handlers |-> FALSE]
    /\ wTimeslot = [h \in Handlers |-> FALSE]
    /\ txn = [h \in Handlers |-> "none"]
    /\ conn = [h \in Handlers |-> "none"]
    /\ resp = [h \in Handlers |-> <<>>]
    /\ sent = [h \in Handlers |-> <<>>]
    /\ failed = [h \in Handlers |-> "none"]
    /\ hist = [h \in Handlers |-> EmptyHist]

\* the BookTimeslot page is not in use
BookAtRest ==
    /\ bookTimeslot = BookTimeslotMount(FALSE)
    /\ inflight = EmptyBag

\* nobody is reserving
ReservationAtRest ==
    /\ reservations = [s \in ReserveSlots |-> FreeSlot]
    /\ reserveCalls = [c \in Callers |-> IdleCall]
    /\ today = 1

\* the management list is not in use
ManagementAtRest ==
    /\ timeslotList = TimeslotListMount([id \in ListIds |-> "available"])
    /\ cancelCalls = EmptyBag

ClientAtRest == BookAtRest /\ ReservationAtRest /\ ManagementAtRest

Init ==
    /\ bookings \in UNION {[D -> Statuses] : D \in SUBSET BookingIds}
    \* T1 expires at time 1 and may have been consumed already; T2 is fresh and
    \* outlives the clock
    /\ \E u \in BOOLEAN :
         tokens = [t \in TokenRows |->
                     IF t = "T1" THEN [booking_id |-> "B1", used |-> u, expires |-> 1]
                     ELSE [booking_id |-> "B1", used |-> FALSE, expires |-> MaxTime + 1]]
    /\ infrastructures \in SUBSET InfraIds
    \* a timeslot is reserved while its booking is pending or approved
    /\ timeslots = [b \in BookingIds |->
                      IF b \in DOMAIN bookings /\ bookings[b] \in {"pending", "approved"}
                      THEN "reserved" ELSE "available"]
    /\ isolation \in Isolations
    /\ HandlersAtRest
    /\ ClientAtRest

\* the endpoint with one pending booking and no request, while the client runs
ServerAtRest ==
    /\ bookings = [b \in BookingIds |-> "pending"]
    /\ tokens = [t \in TokenRows |-> [booking_id |-> "B1", used |-> FALSE, expires |-> MaxTime + 1]]
    /\ infrastructures = InfraIds
    /\ timeslots = [b \in BookingIds |-> "reserved"]
    /\ isolation = "REPEATABLE READ"
    /\ HandlersAtRest

\* ---------------------------------------------------------------- helpers
InFlight(h) == pc[h] \notin {"idle", "done"}

\* an awaited operation of handler h throws: control goes to the catch block
Throws(h, op) ==
    /\ CanFail
    /\ failures' = failures + 1
    /\ failed' = [failed EXCEPT ![h] = op]
    /\ pc' = [pc EXCEPT ![h] = "catch"]

Respond(h, r) == resp' = [resp EXCEPT ![h] = Append(@, r)]

\* line 12 left out: every :action is processed
ActionCheckMissing(a) == FALSE

\* line 12: the :action parameter is not one the handler processes
InvalidActionParam(a) == a # "approve" /\ a # "reject"

\* ---------------------------------------------------------------- actions
\* lines 9-18: a request arrives; an unrecognised action is answered at once
Request(h) ==
    /\ pc[h] = "idle"
    /\ IF h = 1 THEN TRUE ELSE pc[h - 1] # "idle"   \* requests are numbered in arrival order
    /\ \E p \in Requests : LET a == p[1]  t == p[2] IN
        /\ action' = [action EXCEPT ![h] = a]
        /\ token' = [token EXCEPT ![h] = t]
        /\ IF InvalidActionParam(a)
           THEN /\ Respond(h, InvalidAction)
                /\ pc' = [pc EXCEPT ![h] = "done"]
                /\ hist' = hist
           ELSE /\ resp' = resp
                /\ pc' = [pc EXCEPT ![h] = "getConnection"]
                /\ hist' = [hist EXCEPT ![h].after = {g \in Handlers : pc[g] = "done"}]
    /\ UNCHANGED <<store, now, outside, failures, tokenRecord, booking, snapshot,
                   wBooking, wToken, wTimeslot, txn, conn, sent, failed>>

\* line 20: pool.getConnection(); outside the try block, so a rejection ends the
\* handler with no response
GetConnection(h) ==
    /\ pc[h] = "getConnection"
    /\ \/ /\ conn' = [conn EXCEPT ![h] = "held"]
          /\ hist' = [hist EXCEPT ![h].acquired = @ + 1]
          /\ pc' = [pc EXCEPT ![h] = "beginTransaction"]
          /\ UNCHANGED <<failures, failed>>
       \/ /\ CanFail
          /\ failures' = failures + 1
          /\ failed' = [failed EXCEPT ![h] = "store"]
          /\ pc' = [pc EXCEPT ![h] = "done"]
          /\ UNCHANGED <<conn, hist>>
    /\ UNCHANGED <<store, now, outside, locals, wBooking, wToken, wTimeslot, txn, resp, sent>>

\* line 23
BeginTransaction(h) ==
    /\ pc[h] = "beginTransaction"
    /\ \/ /\ txn' = [txn EXCEPT ![h] = "open"]
          /\ pc' = [pc EXCEPT ![h] = "selectToken"]
          /\ UNCHANGED <<failures, failed>>
       \/ /\ Throws(h, "store")
          /\ txn' = txn
    /\ UNCHANGED <<store, now, outside, locals, wBooking, wToken, wTimeslot, conn, resp, sent, hist>>

\* lines 25-39: the first SELECT of the transaction (it takes the read view);
\* NOW() is the time of the statement, not before any earlier NOW()
SelectToken(h) ==
    /\ pc[h] = "selectToken"
    /\ \/ \E n \in now..MaxTime :
          LET rows == SelectValidToken(token[h], n) IN
          /\ now' = n
          /\ hist' = [hist EXCEPT ![h] =
                 [@ EXCEPT !.tokRead = TRUE,
                           !.tokExists = token[h] \in DOMAIN tokens,
                           !.tokUsed = token[h] \in DOMAIN tokens /\ tokens[token[h]].used,
                           !.tokExpired = token[h] \in DOMAIN tokens
                                          /\ tokens[token[h]].expires <= n]]
          /\ IF rows = {}
             THEN /\ Respond(h, InvalidOrExpiredToken)
                  /\ pc' = [pc EXCEPT ![h] = "finally"]
                  /\ UNCHANGED <<tokenRecord, snapshot>>
             ELSE /\ tokenRecord' = [tokenRecord EXCEPT ![h] = CHOOSE t \in rows : TRUE]
                  /\ snapshot' = [snapshot EXCEPT ![h] =
                         IF isolation = "REPEATABLE READ" THEN bookings ELSE <<>>]
                  /\ pc' = [pc EXCEPT ![h] = "selectBooking"]
                  /\ resp' = resp
          /\ UNCHANGED <<failures, failed>>
       \/ /\ Throws(h, "store")
          /\ UNCHANGED <<now, tokenRecord, snapshot, resp, hist>>
    /\ UNCHANGED <<store, outside, action, token, booking, wBooking, wToken,
                   wTimeslot, txn, conn, sent>>

\* lines 41-58: SELECT * FROM bookings WHERE id = ?, then the branch on its status
SelectBooking(h) ==
    /\ pc[h] = "selectBooking"
    /\ \/ /\ LET b == tokens[tokenRecord[h]].booking_id
                 view == ReadView(h) IN
             IF b \notin DOMAIN view
             THEN /\ Respond(h, BookingNotFound)
                  /\ pc' = [pc EXCEPT ![h] = "finally"]
                  /\ booking' = booking
             ELSE /\ booking' = [booking EXCEPT ![h] = <<view[b]>>]
                  /\ pc' = [pc EXCEPT ![h] =
                        IF view[b] # "pending" THEN "markUsedProcessed" ELSE "updateBooking"]
                  /\ resp' = resp
          /\ snapshot' = [snapshot EXCEPT ![h] = <<>>]
          /\ UNCHANGED <<failures, failed>>
       \/ /\ Throws(h, "store")
          /\ UNCHANGED <<booking, snapshot, resp>>
    /\ UNCHANGED <<store, now, outside, action, token, tokenRecord, wBooking, wToken,
                   wTimeslot, txn, conn, sent, hist>>

\* lines 90-94 and 59-63: UPDATE email_action_tokens SET used = 1 WHERE id = ?
UpdateTokenUsed(h, next) ==
    \/ /\ ~TokenLockedByOther(h, tokenRecord[h])
       /\ wToken' = [wToken EXCEPT ![h] = TRUE]
       /\ pc' = [pc EXCEPT ![h] = next]
       /\ UNCHANGED <<failures, failed>>
    \/ /\ Throws(h, "store")
       /\ wToken' = wToken

\* lines 58-63 without the UPDATE of lines 60-63
MarkUsedProcessedSkipped(h) ==
    /\ pc[h] = "markUsedProcessed"
    /\ pc' = [pc EXCEPT ![h] = "commitProcessed"]
    /\ UNCHANGED <<store, now, outside, failures, locals, wBooking, wToken, wTimeslot, txn, conn,
                   resp, sent, failed, hist>>

\* lines 58-63: the booking is not pending; the token is marked used
MarkUsedProcessed(h) ==
    /\ pc[h] = "markUsedProcessed"
    /\ UpdateTokenUsed(h, "commitProcessed")
    /\ UNCHANGED <<store, now, outside, locals, wBooking, wTimeslot, txn, conn, resp, sent, hist>>

\* a COMMIT that loses the UPDATE of the token row
CommitWritesLosingToken(h) ==
    /\ bookings' = IF wBooking[h] = NoRow THEN bookings
                   ELSE [bookings EXCEPT ![tokens[tokenRecord[h]].booking_id] = wBooking[h]]
    /\ tokens' = tokens
    /\ timeslots' = IF wTimeslot[h]
                    THEN [timeslots EXCEPT ![tokens[tokenRecord[h]].booking_id] = "available"]
                    ELSE timeslots
    /\ txn' = [txn EXCEPT ![h] = "committed"]
    /\ wBooking' = [wBooking EXCEPT ![h] = NoRow]
    /\ wToken' = [wToken EXCEPT ![h] = FALSE]
    /\ wTimeslot' = [wTimeslot EXCEPT ![h] = FALSE]
    /\ hist' = [hist EXCEPT ![h].wrote = wBooking[h], ![h].usedCommitted = wToken[h]]

\* COMMIT: the write set reaches the committed rows, the locks are released
CommitWrites(h) ==
    /\ bookings' = IF wBooking[h] = NoRow THEN bookings
                   ELSE [bookings EXCEPT ![tokens[tokenRecord[h]].booking_id] = wBooking[h]]
    /\ tokens' = IF wToken[h] THEN [tokens EXCEPT ![tokenRecord[h]].used = TRUE] ELSE tokens
    /\ timeslots' = IF wTimeslot[h]
                    THEN [timeslots EXCEPT ![tokens[tokenRecord[h]].booking_id] = "available"]
                    ELSE timeslots
    /\ txn' = [txn EXCEPT ![h] = "committed"]
    /\ wBooking' = [wBooking EXCEPT ![h] = NoRow]
    /\ wToken' = [wToken EXCEPT ![h] = FALSE]
    /\ wTimeslot' = [wTimeslot EXCEPT ![h] = FALSE]
    /\ hist' = [hist EXCEPT ![h].wrote = wBooking[h], ![h].usedCommitted = wToken[h]]

\* lines 65-72
CommitProcessed(h) ==
    /\ pc[h] = "commitProcessed"
    /\ \/ /\ CommitWrites(h)
          /\ Respond(h, AlreadyProcessed(booking[h][1]))
          /\ pc' = [pc EXCEPT ![h] = "finally"]
          /\ UNCHANGED <<failures, failed>>
       \/ /\ Throws(h, "store")
          /\ UNCHANGED <<bookings, tokens, timeslots, txn, wBooking, wToken, wTimeslot, resp, hist>>
    /\ UNCHANGED <<infrastructures, now, outside, locals, conn, sent>>

\* lines 75-88: UPDATE bookings SET status = ... WHERE id = ?  (approve), or
\* CALL AdminRejectOrCancelBooking(id, 'rejected')  (reject)
UpdateBooking(h) ==
    /\ pc[h] = "updateBooking"
    /\ LET b == tokens[tokenRecord[h]].booking_id IN
       \/ /\ ~BookingLockedByOther(h, b)
          /\ wBooking' = [wBooking EXCEPT ![h] = NewStatus(action[h])]
          /\ wTimeslot' = [wTimeslot EXCEPT ![h] = ReleasesTimeslot(action[h])]
          /\ hist' = [hist EXCEPT ![h].overwrote = bookings[b]]
          /\ pc' = [pc EXCEPT ![h] = "markUsed"]
          /\ UNCHANGED <<failures, failed>>
       \/ /\ Throws(h, "store")
          /\ UNCHANGED <<wBooking, wTimeslot, hist>>
    /\ UNCHANGED <<store, now, outside, locals, wToken, txn, conn, resp, sent>>

\* lines 90-94
MarkUsed(h) ==
    /\ pc[h] = "markUsed"
    /\ UpdateTokenUsed(h, "selectInfrastructure")
    /\ UNCHANGED <<store, now, outside, locals, wBooking, wTimeslot, txn, conn, resp, sent, hist>>

\* an infrastructure lookup that treats a missing row as an error
SelectInfrastructureRequired(h) ==
    /\ pc[h] = "selectInfrastructure"
    /\ \/ /\ pc' = [pc EXCEPT ![h] =
                IF infrastructures # {} THEN "sendBookingStatusUpdate" ELSE "catch"]
          /\ UNCHANGED <<failures, failed>>
       \/ Throws(h, "store")
    /\ UNCHANGED <<store, now, outside, locals, wBooking, wToken, wTimeslot, txn, conn, resp,
                   sent, hist>>

\* lines 96-103: SELECT * FROM infrastructures WHERE id = ?
SelectInfrastructure(h) ==
    /\ pc[h] = "selectInfrastructure"
    /\ \/ /\ pc' = [pc EXCEPT ![h] =
                IF infrastructures # {} THEN "sendBookingStatusUpdate" ELSE "commit"]
          /\ UNCHANGED <<failures, failed>>
       \/ Throws(h, "store")
    /\ UNCHANGED <<store, now, outside, locals, wBooking, wToken, wTimeslot, txn, conn, resp,
                   sent, hist>>

\* the outcomes of emailService.sendBookingStatusUpdate: it delivers, or it throws
SendOutcomes == {"delivered", "threw"}

\* lines 102-109: await emailService.sendBookingStatusUpdate(booking, infrastructure, outcome)
SendBookingStatusUpdate(h) ==
    /\ pc[h] = "sendBookingStatusUpdate"
    /\ \E o \in SendOutcomes :
        /\ sent' = [sent EXCEPT ![h] = Append(@,
              [booking |-> tokens[tokenRecord[h]].booking_id,
               outcome |-> IF action[h] = "approve" THEN "approved" ELSE "rejected",
               result |-> o])]
        /\ hist' = [hist EXCEPT ![h].sentInTxn = txn[h]]
        /\ IF o = "delivered"
           THEN /\ pc' = [pc EXCEPT ![h] = "commit"]
                /\ UNCHANGED <<failures, failed>>
           ELSE Throws(h, "send")
    /\ UNCHANGED <<store, now, outside, locals, wBooking, wToken, wTimeslot, txn, conn, resp>>

\* lines 111-118
Commit(h) ==
    /\ pc[h] = "commit"
    /\ \/ /\ CommitWrites(h)
          /\ Respond(h, Success(action[h]))
          /\ pc' = [pc EXCEPT ![h] = "finally"]
          /\ UNCHANGED <<failures, failed>>
       \/ /\ Throws(h, "store")
          /\ UNCHANGED <<bookings, tokens, timeslots, txn, wBooking, wToken, wTimeslot, resp, hist>>
    /\ UNCHANGED <<infrastructures, now, outside, locals, conn, sent>>

\* a catch block that answers 500 without connection.rollback()
CatchWithoutRollback(h) ==
    /\ pc[h] = "catch"
    /\ pc' = [pc EXCEPT ![h] = "finally"]
    /\ Respond(h, ServerError)
    /\ UNCHANGED <<store, now, outside, failures, locals, wBooking, wToken, wTimeslot,
                   txn, conn, sent, failed, hist>>

\* lines 119-125: ROLLBACK drops the write set and the locks; when rollback()
\* itself throws (the connection is lost, the server aborts the transaction) the
\* handler ends without a response
Catch(h) ==
    /\ pc[h] = "catch"
    /\ wBooking' = [wBooking EXCEPT ![h] = NoRow]
    /\ wToken' = [wToken EXCEPT ![h] = FALSE]
    /\ wTimeslot' = [wTimeslot EXCEPT ![h] = FALSE]
    /\ txn' = [txn EXCEPT ![h] = "rolledback"]
    /\ pc' = [pc EXCEPT ![h] = "finally"]
    /\ \/ /\ Respond(h, ServerError)
          /\ UNCHANGED <<failures, failed, hist>>
       \/ /\ resp' = resp
          /\ hist' = [hist EXCEPT ![h].rollbackThrew = TRUE]
          /\ UNCHANGED <<failures, failed>>
    /\ UNCHANGED <<store, now, outside, locals, conn, sent>>

\* connection.release() at the end of the try block instead of in finally
FinallyLeaking(h) ==
    /\ pc[h] = "finally"
    /\ conn' = [conn EXCEPT ![h] = IF txn[h] = "committed" THEN "released" ELSE @]
    /\ hist' = [hist EXCEPT ![h].releases = IF txn[h] = "committed" THEN @ + 1 ELSE @]
    /\ pc' = [pc EXCEPT ![h] = "done"]
    /\ UNCHANGED <<store, now, outside, failures, locals, wBooking, wToken, wTimeslot, txn,
                   resp, sent, failed>>

\* lines 126-128
Finally(h) ==
    /\ pc[h] = "finally"
    /\ conn' = [conn EXCEPT ![h] = "released"]
    /\ hist' = [hist EXCEPT ![h].releases = @ + 1]
    /\ pc' = [pc EXCEPT ![h] = "done"]
    /\ UNCHANGED <<store, now, outside, failures, locals, wBooking, wToken, wTimeslot, txn,
                   resp, sent, failed>>

Next ==
    \/ \E h \in Handlers :
        \/ Request(h)
        \/ GetConnection(h)
        \/ BeginTransaction(h)
        \/ SelectToken(h)
        \/ SelectBooking(h)
        \/ MarkUsedProcessed(h)
        \/ CommitProcessed(h)
        \/ UpdateBooking(h)
        \/ MarkUsed(h)
        \/ SelectInfrastructure(h)
        \/ SendBookingStatusUpdate(h)
        \/ Commit(h)
        \/ Catch(h)
        \/ Finally(h)

Spec == Init /\ [][Next]_vars

\* ================================================== BookTimeslot component
\* src/client/src/_User/BookTimeslot.tsx, lines 43-636.  One action is one event
\* handler or promise continuation together with the render and the effects
\* (lines 69-112) it triggers; an awaited call stays in inflight until it settles.

\* String.prototype.trim
RECURSIVE TrimStart(_)
TrimStart(text) ==
    IF text # <<>> /\ Head(text) = " " THEN TrimStart(Tail(text)) ELSE text
RECURSIVE TrimEnd(_)
TrimEnd(text) ==
    IF text # <<>> /\ text[Len(text)] = " " THEN TrimEnd(SubSeq(text, 1, Len(text) - 1))
    ELSE text
Trim(text) == TrimEnd(TrimStart(text))

\* lines 130-155: the answer of one required question
IsAnswerValid(q, answers) ==
    IF q.id \notin DOMAIN answers THEN FALSE
    ELSE LET answer == answers[q.id] IN
         CASE q.question_type \in {"text", "dropdown"} ->
                  answer.type = "string" /\ Trim(answer.value) # <<>>
           [] q.question_type = "number" ->
                  \/ answer.type = "number" /\ answer.value # <<"N", "a", "N">>
                  \/ answer.type = "string" /\ Trim(answer.value) # <<>>
           [] q.question_type = "document" -> answer.type = "File"
           [] OTHER -> FALSE

\* a validateForm that stops after the first required question
ValidateFormFirstOnly(f) ==
    IF f.selectedTimeslotId = Undefined THEN FALSE
    ELSE IF Len(f.questions) = 0 THEN TRUE
    ELSE LET required == {k \in 1..Len(f.questions) : f.questions[k].is_required} IN
         \A k \in required :
            (\A j \in required : k <= j) => IsAnswerValid(f.questions[k], f.answers)

\* lines 115-165: the value validateForm gives to isFormValid
ValidateForm(f) ==
    IF f.selectedTimeslotId = Undefined THEN FALSE
    ELSE IF Len(f.questions) = 0 THEN TRUE
    ELSE \A k \in 1..Len(f.questions) :
            f.questions[k].is_required => IsAnswerValid(f.questions[k], f.answers)

\* lines 94-107: the timeslots of the selected date
FilterByDate(f) ==
    IF f.selectedDate # Undefined /\ f.allTimeslots # {}
    THEN {slot \in f.allTimeslots : slot.booking_date = f.selectedDate}
    ELSE {}

\* the effects of lines 94-112, run after every render that changed their inputs
Render(f) ==
    [f EXCEPT !.selectedDateTimeslots = FilterByDate(f), !.isFormValid = ValidateForm(f)]

\* lines 183-196
AvailableDates(f) == {slot.booking_date : slot \in f.allTimeslots}

\* lines 336-348
IsDateDisabled(f, d) ==
    IF f.selectedInfrastructure = Null \/ f.allTimeslots = {} THEN TRUE
    ELSE IF f.isLoadingTimeslots THEN TRUE
    ELSE d \notin AvailableDates(f)

\* a resetForm without setPurpose('')
ResetFormKeepingPurpose(f, qs) ==
    [f EXCEPT !.selectedDate = Undefined,
              !.selectedTimeslotId = Undefined,
              !.showGuestEmailForm = FALSE,
              !.answers = InitialAnswers(qs)]

\* lines 423-434; qs is the questions state of the render that created the closure
ResetForm(f, qs) ==
    [f EXCEPT !.selectedDate = Undefined,
              !.selectedTimeslotId = Undefined,
              !.purpose = <<>>,
              !.showGuestEmailForm = FALSE,
              !.answers = InitialAnswers(qs)]

\* line 227: /^[^\s@]+@[^\s@]+\.[^\s@]+$/.test(text)
EmailRegexTest(text) ==
    \E i \in 1..Len(text), j \in 1..Len(text) :
        /\ text[i] = "@" /\ text[j] = "."
        /\ 1 < i /\ i + 1 < j /\ j < Len(text)
        /\ \A k \in 1..Len(text) : k # i => text[k] \notin {" ", "@"}

\* the asynchronous operations of the component
FetchTimeslots(i) ==
    [kind |-> "fetchInfrastAvailTimeslots", infrastructure |-> i, timeslot |-> Undefined,
     flow |-> "none", questions |-> <<>>, guestName |-> <<>>, guestEmail |-> <<>>]
FetchQuestions(i) ==
    [kind |-> "fetchInfrastructureQuestions", infrastructure |-> i, timeslot |-> Undefined,
     flow |-> "none", questions |-> <<>>, guestName |-> <<>>, guestEmail |-> <<>>]
\* requestBooking, with what its continuation closes over (questions, for resetForm)
RequestBooking(f, flow) ==
    [kind |-> "requestBooking", infrastructure |-> f.selectedInfrastructure,
     timeslot |-> f.selectedTimeslotId, flow |-> flow, questions |-> f.questions,
     guestName |-> IF flow = "guest" THEN f.guestName ELSE <<>>,
     guestEmail |-> IF flow = "guest" THEN f.guestEmail ELSE <<>>]
\* lines 258-260 and 315-317: setTimeout(..., ALERT_MESSAGE_TIME)
AlertTimeout ==
    [kind |-> "setTimeout", infrastructure |-> Null, timeslot |-> Undefined,
     flow |-> "none", questions |-> <<>>, guestName |-> <<>>, guestEmail |-> <<>>]

Outstanding(kind) == {op \in BagToSet(inflight) : op.kind = kind}
Room(n) == BagCardinality(inflight) + n <= MaxInflight
Start(ops) == inflight' = inflight (+) ops
Settle(op) == inflight' = inflight (-) SetToBag({op})
MainFormShown == ~bookTimeslot.showGuestEmailForm

\* lines 69-91: the effect of a render in which selectedInfrastructure changed
InfrastructureEffect(f) ==
    IF f.selectedInfrastructure # Null
    THEN [f EXCEPT !.isLoadingTimeslots = TRUE, !.isLoading = FALSE]
    ELSE [f EXCEPT !.allTimeslots = {}, !.selectedDateTimeslots = {}, !.isLoading = TRUE]

\* lines 351-356, then the effect of lines 69-91 (which starts the two fetches)
HandleInfrastructureSelected(i) ==
    /\ MainFormShown
    /\ Room(2)
    /\ LET f == bookTimeslot IN
       IF f.selectedInfrastructure = Null \/ f.selectedInfrastructure # i
       THEN /\ bookTimeslot' =
                 Render(InfrastructureEffect(
                     [ResetForm(f, f.questions) EXCEPT !.selectedInfrastructure = i]))
            /\ Start(SetToBag({FetchTimeslots(i)}) (+) SetToBag({FetchQuestions(i)}))
       ELSE UNCHANGED <<bookTimeslot, inflight>>
    /\ UNCHANGED aroundBook

\* lines 172-179: fetchInfrastAvailTimeslots settles
FetchTimeslotsSettles(op) ==
    /\ op \in Outstanding("fetchInfrastAvailTimeslots")
    /\ \E resolved \in BOOLEAN :
         bookTimeslot' =
            Render([bookTimeslot EXCEPT
                !.allTimeslots = IF resolved THEN TimeslotsOf(op.infrastructure) ELSE @,
                !.message = IF resolved THEN @ ELSE Error("msgErrTsFetch"),
                !.isLoadingTimeslots = FALSE])
    /\ Settle(op)
    /\ UNCHANGED aroundBook

\* lines 72-84: fetchInfrastructureQuestions settles
FetchQuestionsSettles(op) ==
    /\ op \in Outstanding("fetchInfrastructureQuestions")
    /\ \E resolved \in BOOLEAN :
         bookTimeslot' =
            IF resolved
            THEN Render([bookTimeslot EXCEPT
                    !.questions = QuestionsOf(op.infrastructure),
                    !.answers = InitialAnswers(QuestionsOf(op.infrastructure))])
            ELSE bookTimeslot
    /\ Settle(op)
    /\ UNCHANGED aroundBook

\* lines 531-546: a day of the calendar is clicked (the selected day: deselected)
CalendarOnSelect(d) ==
    /\ MainFormShown
    /\ bookTimeslot.selectedInfrastructure # Null
    /\ ~IsDateDisabled(bookTimeslot, d)
    /\ bookTimeslot' =
          Render([bookTimeslot EXCEPT
              !.selectedDate = IF @ = d THEN Undefined ELSE d,
              !.selectedTimeslotId = Undefined])
    /\ UNCHANGED <<aroundBook, inflight>>

\* lines 560-581: an item of the timeslot select is chosen
TimeslotOnValueChange(slot) ==
    /\ MainFormShown
    /\ bookTimeslot.selectedDateTimeslots # {} /\ bookTimeslot.selectedDate # Undefined
    /\ slot \in bookTimeslot.selectedDateTimeslots
    /\ bookTimeslot' = Render([bookTimeslot EXCEPT !.selectedTimeslotId = slot.id])
    /\ UNCHANGED <<aroundBook, inflight>>

\* lines 367-417: the values the input of a question can produce
AnswerChoices(q) ==
    CASE q.question_type = "text" -> {Str(text) : text \in TypedTexts}
      [] q.question_type = "number" -> {Str(<<>>), Str(<<"7">>)}
      [] q.question_type = "dropdown" -> {Str(<<"x">>)}
      [] q.question_type = "document" -> {FileAnswer, NullAnswer}
      [] OTHER -> {}

\* lines 370, 380, 388, 405-408
SetAnswers(k) ==
    /\ MainFormShown
    /\ k \in 1..Len(bookTimeslot.questions)
    /\ LET q == bookTimeslot.questions[k] IN
       \E answer \in AnswerChoices(q) :
          bookTimeslot' =
             Render([bookTimeslot EXCEPT
                 !.answers = [id \in DOMAIN @ \cup {q.id} |->
                                 IF id = q.id THEN answer ELSE @[id]]])
    /\ UNCHANGED <<aroundBook, inflight>>

\* line 590
SetPurpose(text) ==
    /\ MainFormShown
    /\ bookTimeslot' = [bookTimeslot EXCEPT !.purpose = text]
    /\ UNCHANGED <<aroundBook, inflight>>

\* line 619: disabled={!isFormValid || isLoading}
SubmitDisabled(f) == ~f.isFormValid \/ f.isLoading

\* lines 279-304, reached through the submit button of lines 617-620
HandleSubmit ==
    /\ MainFormShown
    /\ ~SubmitDisabled(bookTimeslot)
    /\ LET f == bookTimeslot IN
       IF f.selectedTimeslotId = Undefined \/ f.selectedInfrastructure = Null
       THEN /\ bookTimeslot' = [f EXCEPT !.message = Error("msgErrInfTimeUnselected")]
            /\ inflight' = inflight
       ELSE IF f.isGuestMode
       THEN /\ bookTimeslot' = [f EXCEPT !.showGuestEmailForm = TRUE]
            /\ inflight' = inflight
       ELSE /\ Room(1)
            /\ bookTimeslot' = [f EXCEPT !.isLoading = TRUE]
            /\ Start(SetToBag({RequestBooking(f, "regular")}))
    /\ UNCHANGED aroundBook

\* line 471
SetGuestName(text) ==
    /\ ~MainFormShown
    /\ bookTimeslot' = [bookTimeslot EXCEPT !.guestName = text]
    /\ UNCHANGED <<aroundBook, inflight>>

\* the addresses typed into the email input
TypedEmails == {Blank, <<"a", "@", "b">>, <<"a", "@", "b", ".", "c">>}

\* line 482
SetGuestEmail(text) ==
    /\ ~MainFormShown
    /\ bookTimeslot' = [bookTimeslot EXCEPT !.guestEmail = text]
    /\ UNCHANGED <<aroundBook, inflight>>

\* lines 489-495: the Back button
Back ==
    /\ ~MainFormShown
    /\ ~bookTimeslot.isProcessingGuestBooking
    /\ bookTimeslot' = [bookTimeslot EXCEPT !.showGuestEmailForm = FALSE]
    /\ UNCHANGED <<aroundBook, inflight>>

\* a handleGuestBooking without the format check of lines 226-234
HandleGuestBookingAnyFormat ==
    /\ ~MainFormShown
    /\ ~bookTimeslot.isProcessingGuestBooking
    /\ bookTimeslot.guestEmail # <<>> /\ bookTimeslot.guestName # <<>>
    /\ LET f == bookTimeslot
           refused(text) == /\ bookTimeslot' = [f EXCEPT !.message = Error(text)]
                            /\ inflight' = inflight
       IN  IF f.selectedTimeslotId = Undefined \/ f.selectedInfrastructure = Null
           THEN refused("msgErrInf&Ts")
           ELSE IF Trim(f.guestName) = <<>> THEN refused("msgErrName")
           ELSE IF Trim(f.guestEmail) = <<>> THEN refused("msgErrEmailEmpt")
           ELSE /\ Room(1)
                /\ bookTimeslot' = [f EXCEPT !.isProcessingGuestBooking = TRUE,
                                            !.message = NoMessage]
                /\ Start(SetToBag({RequestBooking(f, "guest")}))
    /\ UNCHANGED aroundBook

\* lines 199-246, reached through the submit button of lines 497-505
HandleGuestBooking ==
    /\ ~MainFormShown
    /\ ~bookTimeslot.isProcessingGuestBooking
    /\ bookTimeslot.guestEmail # <<>> /\ bookTimeslot.guestName # <<>>
    /\ LET f == bookTimeslot
           refused(text) == /\ bookTimeslot' = [f EXCEPT !.message = Error(text)]
                            /\ inflight' = inflight
       IN  IF f.selectedTimeslotId = Undefined \/ f.selectedInfrastructure = Null
           THEN refused("msgErrInf&Ts")
           ELSE IF Trim(f.guestName) = <<>> THEN refused("msgErrName")
           ELSE IF Trim(f.guestEmail) = <<>> THEN refused("msgErrEmailEmpt")
           ELSE IF ~EmailRegexTest(f.guestEmail) THEN refused("msgErrEmailInvalid")
           ELSE /\ Room(1)
                /\ bookTimeslot' = [f EXCEPT !.isProcessingGuestBooking = TRUE,
                                            !.message = NoMessage]
                /\ Start(SetToBag({RequestBooking(f, "guest")}))
    /\ UNCHANGED aroundBook

\* how an awaited requestBooking ends
BookingOutcomes == {"success", "failure", "thrown"}

\* lines 248-276 and 306-332: the continuation of requestBooking, then the effect
\* of lines 69-91 when selectedInfrastructure changed
RequestBookingSettles(op) ==
    /\ op \in Outstanding("requestBooking")
    /\ \E outcome \in BookingOutcomes :
        LET f == bookTimeslot
            told == IF outcome = "success"
                    THEN [ResetForm(f, op.questions) EXCEPT
                            !.message = Succeeded("result"),
                            !.selectedInfrastructure = Null]
                    ELSE [f EXCEPT !.message = Error(outcome)]
            ended == IF op.flow = "guest"
                     THEN [told EXCEPT !.isProcessingGuestBooking = FALSE]
                     ELSE [told EXCEPT !.isLoading = FALSE]
        IN  /\ bookTimeslot' =
                  Render(IF ended.selectedInfrastructure # f.selectedInfrastructure
                         THEN InfrastructureEffect(ended) ELSE ended)
            /\ inflight' = IF outcome = "success"
                           THEN (inflight (-) SetToBag({op})) (+) SetToBag({AlertTimeout})
                           ELSE inflight (-) SetToBag({op})
    /\ UNCHANGED aroundBook

\* lines 258-260 and 315-317: the page is left (navigate) or reloaded; the
\* component is mounted anew
AlertTimePassed ==
    /\ AlertTimeout \in BagToSet(inflight)
    /\ bookTimeslot' = BookTimeslotMount(bookTimeslot.isGuestMode)
    /\ inflight' = EmptyBag
    /\ UNCHANGED aroundBook

InitBook ==
    /\ ServerAtRest /\ ReservationAtRest /\ ManagementAtRest
    /\ \E guest \in BOOLEAN : bookTimeslot = BookTimeslotMount(guest)
    /\ inflight = EmptyBag

NextBook ==
    \/ \E i \in ClientInfras : HandleInfrastructureSelected(i)
    \/ \E op \in BagToSet(inflight) : FetchTimeslotsSettles(op)
    \/ \E op \in BagToSet(inflight) : FetchQuestionsSettles(op)
    \/ \E op \in BagToSet(inflight) : RequestBookingSettles(op)
    \/ \E d \in Days : CalendarOnSelect(d)
    \/ \E slot \in AvailableTimeslots : TimeslotOnValueChange(slot)
    \/ \E k \in 1..2 : SetAnswers(k)
    \/ \E text \in {<<>>, <<"a">>} : SetPurpose(text)
    \/ HandleSubmit
    \/ \E text \in {Blank, <<"a">>} : SetGuestName(text)
    \/ \E text \in TypedEmails : SetGuestEmail(text)
    \/ Back
    \/ HandleGuestBooking
    \/ AlertTimePassed

SpecBook == InitBook /\ [][NextBook]_vars

\* ===================================================== Availability Engine
\* reserve(timeslotId, requesterInfo, answers) as spec 4.3 prescribes it: one
\* atomic unit that checks the status, checks the guest limit and reserves.

\* the guest holds a pending booking made today
HoldsPendingToday(r) ==
    \E s \in ReserveSlots :
        /\ reservations[s].status = "pending"
        /\ reservations[s].requester = r
        /\ reservations[s].created = today

\* the outcome of reserve on timeslot s for requester r in the current state
ReserveOutcome(s, r) ==
    IF reservations[s].status # "available" THEN "SlotNoLongerAvailable"
    ELSE IF r.kind = "guest" /\ HoldsPendingToday(r) THEN "RateLimited"
    ELSE "Booking"

\* a client sends a reservation request
CallReserve(c) ==
    /\ reserveCalls[c].state = "idle"
    /\ IF c = 1 THEN TRUE ELSE reserveCalls[c - 1].state # "idle"
    /\ \E s \in ReserveSlots, r \in RequesterInfos :
          reserveCalls' = [reserveCalls EXCEPT ![c] =
                              [@ EXCEPT !.state = "called", !.timeslot = s, !.requester = r]]
    /\ UNCHANGED <<server, book, management, reservations, today>>

\* a reserve that reserves whatever the status of the timeslot
ReserveUnconditionally(c) ==
    /\ reserveCalls[c].state = "called"
    /\ LET s == reserveCalls[c].timeslot
           r == reserveCalls[c].requester
       IN  /\ reserveCalls' = [reserveCalls EXCEPT ![c] =
                  [@ EXCEPT !.state = "done", !.result = "Booking", !.day = today,
                            !.sawAvailable = reservations[s].status = "available",
                            !.heldPending = HoldsPendingToday(r)]]
           /\ reservations' = [reservations EXCEPT ![s] =
                  [status |-> "pending", requester |-> r, created |-> today]]
    /\ UNCHANGED <<server, book, management, today>>

\* a reserve without the guest limit
ReserveUnlimited(c) ==
    /\ reserveCalls[c].state = "called"
    /\ LET s == reserveCalls[c].timeslot
           r == reserveCalls[c].requester
           outcome == IF reservations[s].status # "available"
                      THEN "SlotNoLongerAvailable" ELSE "Booking"
       IN  /\ reserveCalls' = [reserveCalls EXCEPT ![c] =
                  [@ EXCEPT !.state = "done", !.result = outcome, !.day = today,
                            !.sawAvailable = reservations[s].status = "available",
                            !.heldPending = HoldsPendingToday(r)]]
           /\ reservations' =
                  IF outcome = "Booking"
                  THEN [reservations EXCEPT ![s] =
                           [status |-> "pending", requester |-> r, created |-> today]]
                  ELSE reservations
    /\ UNCHANGED <<server, book, management, today>>

\* the atomic unit of reserve
Reserve(c) ==
    /\ reserveCalls[c].state = "called"
    /\ LET s == reserveCalls[c].timeslot
           r == reserveCalls[c].requester
           outcome == ReserveOutcome(s, r)
       IN  /\ reserveCalls' = [reserveCalls EXCEPT ![c] =
                  [@ EXCEPT !.state = "done", !.result = outcome, !.day = today,
                            !.sawAvailable = reservations[s].status = "available",
                            !.heldPending = HoldsPendingToday(r)]]
           /\ reservations' =
                  IF outcome = "Booking"
                  THEN [reservations EXCEPT ![s] =
                           [status |-> "pending", requester |-> r, created |-> today]]
                  ELSE reservations
    /\ UNCHANGED <<server, book, management, today>>

\* midnight
NextDay ==
    /\ today < MaxDay
    /\ today' = today + 1
    /\ UNCHANGED <<server, book, management, reservations, reserveCalls>>

InitReserve ==
    /\ ServerAtRest /\ BookAtRest /\ ManagementAtRest
    /\ ReservationAtRest

NextReserve ==
    \/ \E c \in Callers : CallReserve(c)
    \/ \E c \in Callers : Reserve(c)
    \/ NextDay

SpecReserve == InitReserve /\ [][NextReserve]_vars

\* ========================================== BookingManagementTabsTimeslots
\* One action is an event handler, a change of the props by the parent, or the
\* continuation of cancelTimeslots, each with the render and the effects after it.

\* lines 711-718: the effect on [selectedInfrastructure, items]
ItemsEffect(l) ==
    IF l.selectedInfrastructure
    THEN [l EXCEPT !.timeslots = l.items, !.isLoading = FALSE]
    ELSE [l EXCEPT !.isLoading = TRUE]

\* lines 989-993: the table is rendered with its rows
TableShown == ~timeslotList.isLoading

\* Date.prototype.toDateString
ToDateString(date) ==
    CASE date = "day1" -> "Sun Nov 01 2026"
      [] date = "day2" -> "Mon Nov 02 2026"

\* a string as a condition: '' is false
Truthy(text) == text # ""

\* applyStatusFilters: no filter keeps every row
ApplyStatusFilters(ids, l, filters) ==
    IF filters = {} THEN ids ELSE {id \in ids : l.timeslots[id] \in filters}

\* applyDateFilters: no filter keeps every row; 'today' is day1
ApplyDateFilters(ids, filters) ==
    IF filters = {} THEN ids ELSE {id \in ids : BookingDate(id) = "day1"}

\* lines 721-745: the rows the table displays
FilteredTimeslots(l) ==
    LET byStatus == ApplyStatusFilters(ListIds, l, l.selectedTimeslotStatusFilters)
        byPeriod == ApplyDateFilters(byStatus, l.selectedTimeslotDateFilters)
    IN  IF Truthy(l.timeslotDayFilter)
        THEN {id \in byPeriod : ToDateString(BookingDate(id)) = l.timeslotDayFilter}
        ELSE byPeriod

\* a handleDateFilterChange that keeps the predefined filters
HandleDateFilterChangeKeepingPeriod(l, date) ==
    IF date # Undefined
    THEN [l EXCEPT !.timeslotDayFilter = ToDateString(date),
                   !.clearedDateFilters = l.selectedTimeslotDateFilters]
    ELSE [l EXCEPT !.timeslotDayFilter = ""]

\* lines 753-763
HandleDateFilterChange(l, date) ==
    IF date # Undefined
    THEN [l EXCEPT !.selectedTimeslotDateFilters = {},
                   !.timeslotDayFilter = ToDateString(date),
                   !.clearedDateFilters = l.selectedTimeslotDateFilters]
    ELSE [l EXCEPT !.timeslotDayFilter = ""]

\* lines 976-985: the time-period filter is disabled
PeriodFilterDisabled(l) == Truthy(l.timeslotDayFilter)

\* a call cancelTimeslots(ids) made by a render whose selection was `selected`
CancelTimeslots(ids, selected) ==
    [ids |-> ids,
     selectedTimeslots |-> selected,
     \* the ids whose displayed row was not 'available' when the call was made
     notAvailable |-> {id \in ids : timeslotList.timeslots[id] # "available"}]

\* lines 765-770: handleDeleteTimeslots up to its await
HandleDeleteTimeslots(ids) ==
    IF ids = {}
    THEN UNCHANGED cancelCalls
    ELSE /\ BagCardinality(cancelCalls) < MaxCancelCalls
         /\ cancelCalls' = cancelCalls (+) SetToBag({CancelTimeslots(ids, timeslotList.selectedTimeslots)})

\* the parent passes other items (a status changed)
ItemsChange ==
    /\ \E id \in ListIds, status \in RowStatuses :
          /\ status # timeslotList.items[id]
          /\ timeslotList' = ItemsEffect([timeslotList EXCEPT !.items[id] = status,
                                                              !.dataChangeRequested = FALSE])
    /\ UNCHANGED <<server, book, reservation, cancelCalls>>

\* the parent passes another selectedInfrastructure (defined or undefined)
SelectedInfrastructureChange ==
    /\ timeslotList' = ItemsEffect([timeslotList EXCEPT
                           !.selectedInfrastructure = ~timeslotList.selectedInfrastructure])
    /\ UNCHANGED <<server, book, reservation, cancelCalls>>

\* lines 796-809: the checkbox of a row
CheckboxOnCheckedChange(id) ==
    /\ TableShown
    /\ id \in FilteredTimeslots(timeslotList)
    /\ timeslotList.timeslots[id] = "available"
    /\ timeslotList' = [timeslotList EXCEPT !.selectedTimeslots =
                           IF id \in @ THEN @ \ {id} ELSE @ \cup {id}]
    /\ UNCHANGED <<server, book, reservation, cancelCalls>>

\* lines 874-885: the Cancel button of a row (confirmed)
RowCancel(id) ==
    /\ TableShown
    /\ id \in FilteredTimeslots(timeslotList)
    /\ timeslotList.timeslots[id] = "available"
    /\ HandleDeleteTimeslots({id})
    /\ UNCHANGED <<server, book, reservation, timeslotList>>

\* lines 901-909: the 'cancel selected' button (confirmed)
CancelSelected ==
    /\ timeslotList.selectedTimeslots # {}
    /\ HandleDeleteTimeslots(timeslotList.selectedTimeslots)
    /\ UNCHANGED <<server, book, reservation, timeslotList>>

\* lines 770-784: cancelTimeslots resolves or rejects
CancelTimeslotsSettles(op) ==
    /\ cancelCalls' = cancelCalls (-) SetToBag({op})
    /\ \E resolved \in BOOLEAN :
          timeslotList' =
              IF resolved
              THEN [timeslotList EXCEPT !.reported = "onDelete",
                                        !.selectedTimeslots = op.selectedTimeslots \ op.ids,
                                        !.dataChangeRequested = TRUE]
              ELSE [timeslotList EXCEPT !.reported = "onError"]
    /\ UNCHANGED <<server, book, reservation>>

\* lines 939-945: a day is picked in the calendar of the day filter, or unpicked
DayFilterOnSelect(date) ==
    /\ date # timeslotList.t_timeslotDayFilter
    /\ timeslotList' = HandleDateFilterChange(
                           [timeslotList EXCEPT !.t_timeslotDayFilter = date], date)
    /\ UNCHANGED <<server, book, reservation, cancelCalls>>

\* lines 748-751 and 954-962: the Clear button, rendered while a day is set
HandleClearDateFilter ==
    /\ Truthy(timeslotList.timeslotDayFilter)
    /\ timeslotList' = [timeslotList EXCEPT !.timeslotDayFilter = "",
                                            !.t_timeslotDayFilter = Undefined]
    /\ UNCHANGED <<server, book, reservation, cancelCalls>>

\* lines 965-973: the status filter
StatusFilterOnSelectionChange(values) ==
    /\ values # timeslotList.selectedTimeslotStatusFilters
    /\ timeslotList' = [timeslotList EXCEPT !.selectedTimeslotStatusFilters = values]
    /\ UNCHANGED <<server, book, reservation, cancelCalls>>

\* lines 976-985: the time-period filter
PeriodFilterOnSelectionChange(values) ==
    /\ ~PeriodFilterDisabled(timeslotList)
    /\ values # timeslotList.selectedTimeslotDateFilters
    /\ timeslotList' = [timeslotList EXCEPT !.selectedTimeslotDateFilters = values]
    /\ UNCHANGED <<server, book, reservation, cancelCalls>>

InitList ==
    /\ ServerAtRest /\ BookAtRest /\ ReservationAtRest
    /\ \E items \in [ListIds -> RowStatuses] : timeslotList = TimeslotListMount(items)
    /\ cancelCalls = EmptyBag

NextList ==
    \/ ItemsChange
    \/ SelectedInfrastructureChange
    \/ \E id \in ListIds : CheckboxOnCheckedChange(id)
    \/ \E id \in ListIds : RowCancel(id)
    \/ CancelSelected
    \/ \E op \in BagToSet(cancelCalls) : CancelTimeslotsSettles(op)
    \/ \E date \in FilterDays \cup {Undefined} : DayFilterOnSelect(date)
    \/ HandleClearDateFilter
    \/ \E values \in StatusFilterChoices : StatusFilterOnSelectionChange(values)
    \/ \E values \in SUBSET DateFilterOptions : PeriodFilterOnSelectionChange(values)

SpecList == InitList /\ [][NextList]_vars

\* ============================================================ properties
Done(h) == pc[h] = "done"
Answered(h, r) == resp[h] = <<r>>
AnsweredSuccess(h) == Len(resp[h]) = 1 /\ resp[h][1].success
AnsweredAlreadyProcessed(h) == \E st \in Statuses : Answered(h, AlreadyProcessed(st))
\* line 26 returned a row: the token was there, unused and unexpired
SawValidToken(h) ==
    hist[h].tokRead /\ hist[h].tokExists /\ ~hist[h].tokUsed /\ ~hist[h].tokExpired
SawPending(h) == booking[h] = <<"pending">>
\* nothing inside or outside the try block threw
NothingThrew(h) == failed[h] = "none" /\ ~hist[h].rollbackThrew
NoStoreFailure(h) == failed[h] # "store" /\ ~hist[h].rollbackThrew
\* request h made a booking status durable
ChangedStatus(h) == hist[h].wrote # NoRow
\* request h wrote nothing, durable or pending
WroteNothing(h) ==
    /\ hist[h].wrote = NoRow /\ ~hist[h].usedCommitted
    /\ wBooking[h] = NoRow /\ ~wToken[h]
\* request h arrived while request g was still running
Overlapped(g, h) == g < h /\ pc[h] # "idle" /\ g \notin hist[h].after
\* request h arrived after request g had ended
Followed(g, h) == g < h /\ pc[h] # "idle" /\ g \in hist[h].after
Recognised(h) == action[h] \in {"approve", "reject"}

\* C1 (as claimed): N >= 2 concurrent requests with one valid token of a pending
\* booking, none of which throws: exactly one changes the status and answers
\* success; every other one answers AlreadyProcessed or InvalidOrExpiredToken,
\* changes no status and sends no notification.
C1_SingleConsumption ==
    \A t \in TokenRows :
        ( /\ \A h \in Handlers : Done(h) /\ Recognised(h) /\ token[h] = t /\ NothingThrew(h)
          /\ \A h \in Handlers \ {1} : Overlapped(h - 1, h)
          /\ \E h \in Handlers : SawValidToken(h) /\ SawPending(h) )
        => \E w \in Handlers :
              /\ AnsweredSuccess(w) /\ ChangedStatus(w)
              /\ \A h \in Handlers \ {w} :
                    /\ AnsweredAlreadyProcessed(h) \/ Answered(h, InvalidOrExpiredToken)
                    /\ ~ChangedStatus(h)
                    /\ sent[h] = <<>>

\* C2 (as claimed): an approve and a reject, with two distinct valid tokens of the
\* same pending booking, run concurrently and neither throws: exactly one of them
\* changes the status, the other answers AlreadyProcessed, and the final status
\* is the winner's.
C2_CompetingTransitions ==
    \A g \in Handlers, h \in Handlers :
        ( /\ Overlapped(g, h) /\ Done(g) /\ Done(h)
          /\ \A k \in Handlers \ {g, h} : pc[k] = "idle"
          /\ token[g] # token[h] /\ SawValidToken(g) /\ SawValidToken(h)
          /\ {action[g], action[h]} = {"approve", "reject"}
          /\ SawPending(g) \/ SawPending(h)
          /\ NothingThrew(g) /\ NothingThrew(h) )
        => \E w \in {g, h} : \A l \in {g, h} \ {w} :
              /\ ChangedStatus(w) /\ ~ChangedStatus(l)
              /\ AnsweredAlreadyProcessed(l)
              /\ bookings["B1"] = NewStatus(action[w])

\* C3 (as claimed): every status write of the handler lands on a booking that is
\* pending when the write takes effect (when the UPDATE locks the row).
C3_OnlyPendingIsChanged ==
    \A h \in Handlers : hist[h].overwrote \in {NoRow, "pending"}

\* C4 (as claimed): sendBookingStatusUpdate is invoked only after the request's
\* transaction has committed, and never for a transaction that is rolled back.
C4_NotifyAfterCommit ==
    \A h \in Handlers :
        sent[h] # <<>> => hist[h].sentInTxn = "committed" /\ txn[h] # "rolledback"

\* C5 (as claimed): when sendBookingStatusUpdate throws, the booking's new status
\* and the token's used flag are committed all the same.
C5_NotifyFailureKeepsTransition ==
    \A h \in Handlers :
        Done(h) /\ failed[h] = "send"
        => /\ hist[h].wrote = NewStatus(action[h]) /\ hist[h].usedCommitted
           /\ tokens[token[h]].used

\* C6 (as claimed): two sequential requests with the same token, valid and with a
\* pending booking before the first: the first answers success, the second
\* AlreadyProcessed with the booking's current status.
C6_ReplayAlreadyProcessed ==
    \A g \in Handlers, h \in Handlers :
        ( /\ Followed(g, h) /\ Done(h) /\ token[g] = token[h]
          /\ Recognised(g) /\ Recognised(h)
          /\ SawValidToken(g) /\ SawPending(g)
          /\ NothingThrew(g) /\ NothingThrew(h) )
        => /\ AnsweredSuccess(g)
           /\ Answered(h, AlreadyProcessed(bookings["B1"]))

\* C6 (amended): a request that follows a successful request with the same token,
\* and whose store operations succeed, answers InvalidOrExpiredToken, changes
\* nothing and sends nothing; there are never two successes in sequence.
C6_ReplayInvalidToken ==
    \A g \in Handlers, h \in Handlers :
        ( /\ Followed(g, h) /\ Done(h) /\ token[g] = token[h]
          /\ AnsweredSuccess(g) /\ Recognised(h) /\ NoStoreFailure(h) )
        => /\ Answered(h, InvalidOrExpiredToken)
           /\ WroteNothing(h)
           /\ sent[h] = <<>>

C6_Witness ==
    \E g \in Handlers, h \in Handlers :
        /\ Followed(g, h) /\ Done(h) /\ token[g] = token[h]
        /\ AnsweredSuccess(g) /\ Answered(h, InvalidOrExpiredToken)

\* C7: a request whose token is already consumed (used = 1 when line 26 reads it)
\* answers InvalidOrExpiredToken, writes no booking and no token, and sends no
\* notification.
C7_ConsumedTokenRefused ==
    \A h \in Handlers :
        hist[h].tokUsed
        => /\ tokenRecord[h] = NoRow
           /\ Answered(h, InvalidOrExpiredToken)
           /\ WroteNothing(h)
           /\ hist[h].overwrote = NoRow
           /\ sent[h] = <<>>

C7_Witness ==
    \E h \in Handlers :
        /\ Done(h) /\ hist[h].tokUsed /\ ~hist[h].tokExpired
        /\ Answered(h, InvalidOrExpiredToken)
        /\ bookings = [b \in BookingIds |-> "pending"]

\* C8: a request with a valid token whose booking exists and is not pending, and
\* whose store operations succeed, marks the token used and commits, writes no
\* booking status, sends no notification and answers 400 AlreadyProcessed with
\* the status it read, which is a status the booking had during the request.
C8_NotPendingConsumesToken ==
    \A h \in Handlers :
        /\ ( /\ Done(h) /\ SawValidToken(h) /\ NoStoreFailure(h)
             /\ booking[h] # <<>> /\ ~SawPending(h) )
           => /\ Answered(h, AlreadyProcessed(booking[h][1]))
              /\ resp[h][1].status = 400
              /\ txn[h] = "committed" /\ hist[h].usedCommitted
              /\ tokens[token[h]].used
        /\ ( booking[h] # <<>> /\ ~SawPending(h) )
           => /\ ~ChangedStatus(h) /\ wBooking[h] = NoRow /\ hist[h].overwrote = NoRow
              /\ sent[h] = <<>>
        /\ AnsweredAlreadyProcessed(h)
           => /\ booking[h] # <<>> /\ ~SawPending(h)
              /\ hist[h].usedCommitted /\ tokens[token[h]].used

C8_Witness ==
    \E h \in Handlers :
        /\ Done(h) /\ Answered(h, AlreadyProcessed("approved"))
        /\ action[h] = "reject" /\ tokens[token[h]].used
        /\ bookings["B1"] = "approved"

\* C9 (as claimed): a request run alone with a valid token on a pending booking,
\* no store operation failing, leaves the booking approved (approve) or rejected
\* (reject), the token used in the same committed transaction, and answers 200
\* success with the action.
C9_AloneSucceeds ==
    \A h \in Handlers :
        ( /\ Done(h) /\ \A g \in Handlers \ {h} : pc[g] = "idle"
          /\ Recognised(h) /\ SawValidToken(h) /\ SawPending(h)
          /\ NoStoreFailure(h) )
        => /\ bookings["B1"] = (IF action[h] = "approve" THEN "approved" ELSE "rejected")
           /\ tokens[token[h]].used
           /\ txn[h] = "committed" /\ ChangedStatus(h) /\ hist[h].usedCommitted
           /\ Answered(h, Success(action[h]))

\* C10: line 26 returns a row exactly when the token exists, is unused and is
\* unexpired; a missing, a used and an expired token get the same 400 response,
\* and the request writes no booking and no token.
C10_ValidationPredicate ==
    \A h \in Handlers :
        hist[h].tokRead
        => /\ (tokenRecord[h] # NoRow) <=> SawValidToken(h)
           /\ tokenRecord[h] = NoRow
              => /\ Answered(h, InvalidOrExpiredToken)
                 /\ resp[h][1].status = 400
                 /\ WroteNothing(h)
                 /\ hist[h].overwrote = NoRow

C10_Witness ==
    \E g \in Handlers, h \in Handlers :
        /\ Done(g) /\ Done(h)
        /\ ~hist[g].tokExists /\ hist[g].tokRead
        /\ hist[h].tokExpired /\ ~hist[h].tokUsed
        /\ resp[g] = resp[h] /\ Answered(h, InvalidOrExpiredToken)

\* the action a token was issued for (spec 3: "bound action")
BoundAction(t) == IF t = "T1" THEN "approve" ELSE "reject"

\* the timeslots listAvailable returns (spec 4.3): those committed as available
ListAvailable == {b \in BookingIds : timeslots[b] = "available"}

Delivered(h) == \E i \in 1..Len(sent[h]) : sent[h][i].result = "delivered"
\* the requests so far ran one after the other
Sequential == \A h \in Handlers \ {1} : pc[h] # "idle" => Followed(h - 1, h)
BusinessOutcomes ==
    {InvalidAction, InvalidOrExpiredToken, BookingNotFound}
    \cup {AlreadyProcessed(st) : st \in Statuses}
    \cup {Success(a) : a \in {"approve", "reject"}}

\* C11 (as claimed): a token executed through the URL of the other action than
\* the one it is bound to is refused and changes no booking status.
C11_ActionMustMatch ==
    \A h \in Handlers :
        ( /\ pc[h] # "idle" /\ Recognised(h) /\ token[h] \in TokenRows
          /\ action[h] # BoundAction(token[h]) )
        => ~ChangedStatus(h) /\ ~AnsweredSuccess(h)

\* C12: a request in which a store operation of the transaction throws ends with
\* the transaction rolled back and nothing of it durable, and answers 500 only
\* once it is rolled back; run alone, it leaves the token unused and the booking
\* pending as it read them, and a retry with the same token, still unexpired and
\* with nothing throwing, succeeds.
C12_StoreFailureRollsBack ==
    \A h \in Handlers :
        /\ ( failed[h] = "store" /\ hist[h].acquired = 1 /\ pc[h] \in {"finally", "done"} )
           => /\ txn[h] = "rolledback"
              /\ WroteNothing(h) /\ ~wTimeslot[h]
              /\ \/ Answered(h, ServerError)
                 \/ hist[h].rollbackThrew /\ resp[h] = <<>>
        /\ Answered(h, ServerError) => txn[h] = "rolledback"
        /\ ( /\ Done(h) /\ failed[h] = "store" /\ SawValidToken(h)
             /\ \A g \in Handlers \ {h} : pc[g] = "idle" )
           => /\ ~tokens[token[h]].used
              /\ SawPending(h) => bookings["B1"] = "pending" /\ timeslots["B1"] = "reserved"
        /\ \A g \in Handlers :
             ( /\ Followed(h, g) /\ Done(g) /\ failed[h] = "store"
               /\ SawValidToken(h) /\ SawPending(h)
               /\ token[g] = token[h] /\ Recognised(g) /\ NothingThrew(g)
               /\ hist[g].tokRead /\ ~hist[g].tokExpired
               /\ \A k \in Handlers \ {h, g} : pc[k] = "idle" )
             => Answered(g, Success(action[g])) /\ ChangedStatus(g)

C12_Witness ==
    \E h \in Handlers, g \in Handlers :
        /\ Followed(h, g) /\ failed[h] = "store" /\ hist[h].overwrote = "pending"
        /\ Answered(h, ServerError)
        /\ token[g] = token[h] /\ AnsweredSuccess(g)

\* C13 (as claimed): a connection is released only with its transaction committed
\* or rolled back; the InvalidOrExpiredToken and BookingNotFound exits roll back,
\* and the BookingNotFound exit leaves the token unused.
C13_TransactionEndedBeforeRelease ==
    \A h \in Handlers :
        /\ conn[h] = "released" => txn[h] \in {"committed", "rolledback"}
        /\ ( conn[h] = "released"
             /\ (Answered(h, InvalidOrExpiredToken) \/ Answered(h, BookingNotFound)) )
           => txn[h] = "rolledback"
        /\ Answered(h, BookingNotFound) => ~hist[h].usedCommitted /\ ~wToken[h]

\* C14 (as claimed): each token is marked used by at most one request, and only by
\* a committed request that answers success or AlreadyProcessed.
C14_TokenMarkedUsedOnce ==
    /\ \A t \in TokenRows :
          Cardinality({h \in Handlers : tokenRecord[h] = t /\ hist[h].usedCommitted}) <= 1
    /\ \A h \in Handlers :
          hist[h].usedCommitted
          => txn[h] = "committed" /\ (AnsweredSuccess(h) \/ AnsweredAlreadyProcessed(h))

\* C15 (as claimed): over sequential requests, a notification is dispatched only
\* by a request that made a status transition, at most one per booking, and none
\* by a request that ends in AlreadyProcessed, InvalidOrExpiredToken,
\* BookingNotFound or InvalidAction.
C15_NotifyOnlyOnTransition ==
    Sequential
    => /\ \A h \in Handlers : Done(h) /\ Delivered(h) => ChangedStatus(h)
       /\ Cardinality({h \in Handlers : Delivered(h)}) <= 1
       /\ \A h \in Handlers :
             ( \/ AnsweredAlreadyProcessed(h) \/ Answered(h, InvalidOrExpiredToken)
               \/ Answered(h, BookingNotFound) \/ Answered(h, InvalidAction) )
             => sent[h] = <<>>

\* C16 (as claimed): a request whose store operations all succeed is answered
\* with a business outcome, never with 500.
C16_NoServerErrorWithoutStoreFailure ==
    \A h \in Handlers :
        Done(h) /\ NoStoreFailure(h)
        => Len(resp[h]) = 1 /\ resp[h][1] \in BusinessOutcomes

\* C17 (as claimed): a request that has ended has received exactly one JSON
\* response with a boolean success flag and a message, and success = true only
\* with the status change and the token consumption committed.
C17_ExactlyOneResponse ==
    \A h \in Handlers :
        /\ Done(h) => /\ Len(resp[h]) = 1
                      /\ resp[h][1].success \in BOOLEAN
                      /\ resp[h][1].message # ""
        /\ AnsweredSuccess(h)
           => txn[h] = "committed" /\ ChangedStatus(h) /\ hist[h].usedCommitted

\* C18: a request releases the connection it acquired exactly once on every exit
\* path, and releases none when it acquired none.
C18_ConnectionReleasedOnce ==
    \A h \in Handlers :
        /\ hist[h].acquired <= 1 /\ hist[h].releases <= hist[h].acquired
        /\ Done(h) => hist[h].releases = hist[h].acquired
        /\ conn[h] = "released" <=> hist[h].releases = 1
        /\ conn[h] = "none" <=> hist[h].acquired = 0
        /\ pc[h] \in {"beginTransaction", "selectToken", "selectBooking", "markUsedProcessed",
                      "commitProcessed", "updateBooking", "markUsed", "selectInfrastructure",
                      "sendBookingStatusUpdate", "commit", "catch", "finally"}
           => conn[h] = "held"

C18_Witness ==
    \E g \in Handlers, h \in Handlers :
        /\ Done(g) /\ Answered(g, ServerError) /\ hist[g].releases = 1
        /\ Done(h) /\ Answered(h, InvalidOrExpiredToken) /\ hist[h].releases = 1

\* C19: a request with an unrecognised action is answered 400 InvalidAction at
\* once: no connection, no transaction, no read and no write of a token or a
\* booking, no notification.
C19_InvalidActionTouchesNothing ==
    \A h \in Handlers :
        pc[h] # "idle" /\ action[h] \notin {"approve", "reject"}
        => /\ Done(h) /\ Answered(h, InvalidAction)
           /\ resp[h][1].status = 400
           /\ conn[h] = "none" /\ hist[h].acquired = 0 /\ txn[h] = "none"
           /\ ~hist[h].tokRead /\ tokenRecord[h] = NoRow /\ booking[h] = <<>>
           /\ WroteNothing(h) /\ ~wTimeslot[h] /\ hist[h].overwrote = NoRow
           /\ sent[h] = <<>>

C19_Witness ==
    \E h \in Handlers :
        /\ action[h] = "delete" /\ Answered(h, InvalidAction)
        /\ bookings = [b \in BookingIds |-> "pending"] /\ ~tokens["T1"].used

C23_MissingInfrastructureStillCommits ==
    \A h \in Handlers :
        ( /\ Done(h) /\ Recognised(h) /\ SawValidToken(h) /\ SawPending(h)
          /\ infrastructures = {} /\ NothingThrew(h) )
        => /\ Answered(h, Success(action[h]))
           /\ txn[h] = "committed"
           /\ hist[h].wrote = NewStatus(action[h]) /\ hist[h].usedCommitted
           /\ tokens[token[h]].used
           /\ sent[h] = <<>>

C23_Witness ==
    \E h \in Handlers :
        /\ Done(h) /\ infrastructures = {} /\ AnsweredSuccess(h)
        /\ hist[h].overwrote = "pending" /\ sent[h] = <<>>

\* ------------------------------------------- BookTimeslot: properties
\* the requestBooking calls not yet settled
BookingCalls ==
    BagCardinality([op \in Outstanding("requestBooking") |-> CopiesIn(op, inflight)])
FetchesOutstanding ==
    Outstanding("fetchInfrastAvailTimeslots") \cup Outstanding("fetchInfrastructureQuestions")
NonBlank(text) == \E k \in 1..Len(text) : text[k] # " "
\* local@domain.tld, no part empty, no whitespace and no further @
MatchesEmailPattern(text) ==
    \E a \in 1..Len(text), d \in 1..Len(text) :
        LET local == SubSeq(text, 1, a - 1)
            domain == SubSeq(text, a + 1, d - 1)
            tld == SubSeq(text, d + 1, Len(text))
            clean(part) == part # <<>> /\ \A k \in 1..Len(part) : part[k] \notin {" ", "@"}
        IN  a < d /\ text[a] = "@" /\ text[d] = "." /\ clean(local) /\ clean(domain) /\ clean(tld)
GuestInputsOk(f) ==
    /\ f.selectedTimeslotId # Undefined /\ f.selectedInfrastructure # Null
    /\ NonBlank(f.guestName) /\ NonBlank(f.guestEmail)
    /\ MatchesEmailPattern(f.guestEmail)
\* a required question has a valid answer for its type
HasValidAnswer(q, answers) ==
    /\ q.id \in DOMAIN answers
    /\ LET answer == answers[q.id] IN
       \/ /\ q.question_type \in {"text", "dropdown"}
          /\ answer.type = "string" /\ NonBlank(answer.value)
       \/ /\ q.question_type = "number"
          /\ \/ answer.type = "number" /\ answer.value # <<"N", "a", "N">>
             \/ answer.type = "string" /\ NonBlank(answer.value)
       \/ /\ q.question_type = "document"
          /\ answer.type = "File"
\* this step is the continuation of a requestBooking
BookingSettled ==
    /\ BagCardinality(inflight') >= BagCardinality(inflight) - 1
    /\ \E op \in Outstanding("requestBooking") :
          CopiesIn(op, inflight') = CopiesIn(op, inflight) - 1

\* C24 (as claimed): with no fetch outstanding and none having failed (a failed
\* timeslot fetch leaves the error message), the timeslots the component holds
\* are those fetched for the selected infrastructure, and allTimeslots is empty
\* when no infrastructure is selected.
C24_FetchedDataIsCurrent ==
    LET f == bookTimeslot IN
    /\ ( FetchesOutstanding = {} /\ f.message # "error" /\ f.selectedInfrastructure # Null )
       => f.allTimeslots = TimeslotsOf(f.selectedInfrastructure)
    /\ ( f.message # "error" /\ f.selectedInfrastructure = Null ) => f.allTimeslots = {}

\* C25 (as claimed): at most one requestBooking call is outstanding, and while one
\* is, the submitting control of its flow is disabled.
C25_OneBookingRequestAtATime ==
    /\ BookingCalls <= 1
    /\ \A op \in Outstanding("requestBooking") :
          /\ op.flow = "regular" => SubmitDisabled(bookTimeslot)
          /\ op.flow = "guest" => bookTimeslot.isProcessingGuestBooking

\* C26: in guest mode a requestBooking call starts only from the guest form, with
\* a timeslot and an infrastructure selected, a non-blank name and email and an
\* email of the form local@domain.tld; submitting the main form starts none and
\* opens the guest form; a guest submission failing a check starts none and sets
\* an error message.
C26_GuestRequestsOnlyFromGuestForm ==
    [][ bookTimeslot.isGuestMode =>
          LET f == bookTimeslot IN
          /\ \A op \in Outstanding("requestBooking")' :
                CopiesIn(op, inflight') > CopiesIn(op, inflight)
                => /\ ~MainFormShown /\ GuestInputsOk(f)
                   /\ op = RequestBooking(f, "guest")
          /\ (MainFormShown /\ HandleSubmit)
             => /\ inflight' = inflight
                /\ f.selectedTimeslotId # Undefined /\ f.selectedInfrastructure # Null
                   => bookTimeslot'.showGuestEmailForm
          /\ (HandleGuestBooking /\ ~GuestInputsOk(f))
             => inflight' = inflight /\ bookTimeslot'.message = "error"
      ]_vars

C26_Witness ==
    /\ bookTimeslot.isGuestMode
    /\ \E op \in Outstanding("requestBooking") : op.flow = "guest"

\* C27: isFormValid is true exactly when a timeslot is selected and every required
\* question has a valid answer for its type; the submit button is enabled only
\* with isFormValid true and isLoading false.
C27_FormValidity ==
    LET f == bookTimeslot IN
    /\ f.isFormValid <=>
          /\ f.selectedTimeslotId # Undefined
          /\ \A k \in 1..Len(f.questions) :
                f.questions[k].is_required => HasValidAnswer(f.questions[k], f.answers)
    /\ ENABLED HandleSubmit => f.isFormValid /\ ~f.isLoading

C27_Witness ==
    /\ bookTimeslot.isFormValid
    /\ Len(bookTimeslot.questions) = 2
    /\ bookTimeslot.selectedInfrastructure = "B"

\* C28 (as claimed): the selected timeslot id is undefined or the id of a timeslot
\* of the selected infrastructure on the selected date.
C28_SelectedTimeslotIsCurrent ==
    LET f == bookTimeslot IN
    \/ f.selectedTimeslotId = Undefined
    \/ \E slot \in AvailableTimeslots :
          /\ slot.id = f.selectedTimeslotId
          /\ slot.infrastructure_id = f.selectedInfrastructure
          /\ slot.booking_date = f.selectedDate

\* C29: the continuation of a successful requestBooking clears the selected date,
\* the selected timeslot, the purpose, the answers and the selected
\* infrastructure and hides the guest form; the continuation of a failed or
\* throwing one changes nothing but the message, which is an error, and the flag.
C29_OnlySuccessResets ==
    [][ BookingSettled =>
          LET f == bookTimeslot  g == bookTimeslot' IN
          IF g.message = "success"
          THEN /\ g.selectedDate = Undefined /\ g.selectedTimeslotId = Undefined
               /\ g.purpose = <<>>
               /\ \A id \in DOMAIN g.answers : g.answers[id] \in {Str(<<>>), NullAnswer}
               /\ g.selectedInfrastructure = Null
               /\ ~g.showGuestEmailForm
          ELSE \E loading \in BOOLEAN, processing \in BOOLEAN :
                  g = [f EXCEPT !.message = "error", !.isLoading = loading,
                                !.isProcessingGuestBooking = processing]
      ]_vars

C29_Witness ==
    /\ bookTimeslot.message = "success"
    /\ bookTimeslot.selectedInfrastructure = Null
    /\ AlertTimeout \in BagToSet(inflight)

\* ------------------------------------------- Availability Engine: properties
CallsDone(s) == {c \in Callers : reserveCalls[c].state = "done" /\ reserveCalls[c].timeslot = s}
Won(s) == {c \in CallsDone(s) : reserveCalls[c].result = "Booking"}

C30_OnlyAvailableCancelled ==
    \A op \in BagToSet(cancelCalls) : op.notAvailable = {}

\* C31: handleDeleteTimeslots with no ids does nothing; when cancelTimeslots(ids)
\* succeeds it calls onDelete, removes exactly ids from the selection and calls
\* onDataChange; when it fails it calls onError only and leaves the selection
\* and the other callbacks alone.
C31_DeleteReportsAndSelection ==
    [][ /\ HandleDeleteTimeslots({}) => cancelCalls' = cancelCalls
        /\ \A op \in BagToSet(cancelCalls) :
              cancelCalls' = cancelCalls (-) SetToBag({op})
              => \/ /\ timeslotList'.reported = "onDelete"
                    /\ timeslotList'.dataChangeRequested
                    /\ timeslotList'.selectedTimeslots =
                           timeslotList.selectedTimeslots \ op.ids
                 \/ /\ timeslotList'.reported = "onError"
                    /\ timeslotList'.dataChangeRequested = timeslotList.dataChangeRequested
                    /\ timeslotList'.selectedTimeslots = timeslotList.selectedTimeslots
      ]_vars

\* C32: the custom day filter and the predefined time-period filters are never
\* both active: a day set by handleDateFilterChange clears the period filters,
\* and while a day is set the period filter is disabled and cannot be changed.
C32_DayOrPeriodFilter ==
    LET l == timeslotList IN
    Truthy(l.timeslotDayFilter)
    => /\ l.selectedTimeslotDateFilters = {}
       /\ PeriodFilterDisabled(l)
       /\ ~ENABLED (\E values \in SUBSET DateFilterOptions : PeriodFilterOnSelectionChange(values))

\* a day was set while a period filter was active
C32_Witness ==
    /\ Truthy(timeslotList.timeslotDayFilter)
    /\ timeslotList.clearedDateFilters # {}
    /\ timeslotList.selectedTimeslotDateFilters = {}

====
